---- MODULE Spec2Model ----
(***************************************************************************)
(* Model of backend/seed.cjs: the mongoose schemas and seedDatabase(), the *)
(* one async function of the script.  Every await of seedDatabase is a     *)
(* pair of steps: the call is issued (Start) and its promise settles       *)
(* (Settle...), resolved or rejected.  The database is the four            *)
(* collections the script drops and fills.                                 *)
(***************************************************************************)
EXTENDS Integers, Sequences, FiniteSets, TLC

VARIABLES pc, inflight, conn, db, caught, users, categoryMap, userMap,
          bookMap, log, closeCount, result

vars == <<pc, inflight, conn, db, caught, users, categoryMap, userMap,
          bookMap, log, closeCount, result>>

(* A field that was not given (JavaScript undefined): a string where the   *)
(* schema type is String, the empty tuple where it is an ObjectId.         *)
Undefined == "undefined"
UndefinedId == <<>>

Collections == {"books", "bookcategories", "booktransactions", "users"}

(* The ObjectId of the k-th document a run creates in a collection.        *)
NewId(run, c, k) == <<c, run, k>>

(* obj[key] of a plain JavaScript object used as a map.                    *)
Lookup(map, key) == IF key \in DOMAIN map THEN map[key] ELSE UndefinedId

(* docs.reduce((acc, d) => { acc[d.<name>] = d._id; return acc; }, {})    *)
ReduceToMap(docs, names) ==
    [n \in {names[i] : i \in 1..Len(names)} |->
        docs[CHOOSE i \in 1..Len(docs) :
                 /\ names[i] = n
                 /\ \A j \in (i+1)..Len(docs) : names[j] # n]._id]

----------------------------------------------------------------------------
(* Schemas: a document as the model constructor builds it, defaults applied *)

BookCategory(raw, id) ==
    [_id |-> id, categoryName |-> raw.categoryName, books |-> <<>>]

User(raw, id) ==
    [_id |-> id, userType |-> raw.userType, userFullName |-> raw.userFullName,
     admissionId |-> raw.admissionId, employeeId |-> raw.employeeId,
     mobileNumber |-> raw.mobileNumber, email |-> raw.email,
     password |-> raw.password, address |-> "", photo |-> "", points |-> 0,
     activeTransactions |-> <<>>, prevTransactions |-> <<>>,
     isAdmin |-> raw.isAdmin]

Book(raw, id) ==
    [_id |-> id, bookName |-> raw.bookName, alternateTitle |-> "",
     author |-> raw.author, language |-> "", publisher |-> "",
     bookCountAvailable |-> raw.bookCountAvailable,
     bookStatus |-> "Available", categories |-> raw.categories,
     transactions |-> <<>>]

(* A wrong schema default.                                                 *)
WrongDefaultStatus == "Completed"
DefaultTransactionStatus == "Active"

BookTransaction(raw, id) ==
    [_id |-> id, bookId |-> raw.bookId, borrowerId |-> raw.borrowerId,
     bookName |-> raw.bookName, borrowerName |-> raw.borrowerName,
     transactionType |-> raw.transactionType, fromDate |-> raw.fromDate,
     toDate |-> raw.toDate, returnDate |-> raw.returnDate,
     transactionStatus |-> IF raw.transactionStatus = Undefined
                           THEN DefaultTransactionStatus
                           ELSE raw.transactionStatus]

(* required: true of BookTransactionSchema, checked by insertMany.         *)
ValidTransaction(d) ==
    /\ d.bookId # UndefinedId
    /\ d.borrowerId # UndefinedId
    /\ d.bookName # Undefined
    /\ d.borrowerName # Undefined
    /\ d.transactionType # Undefined
    /\ d.fromDate # Undefined
    /\ d.toDate # Undefined

----------------------------------------------------------------------------
(* The literal data of seedDatabase                                        *)

categoriesData ==
    <<[categoryName |-> "Fiction"], [categoryName |-> "Science Fiction"],
      [categoryName |-> "Mystery"], [categoryName |-> "Thriller"],
      [categoryName |-> "Non-Fiction"], [categoryName |-> "Biography"],
      [categoryName |-> "History"], [categoryName |-> "Technology"]>>

(* isAdmin is given for the admin only; the schema default of the others  *)
(* (false) is written out here.                                            *)
usersData ==
    <<[userType |-> "Member", userFullName |-> "John Doe",
       email |-> "john.doe@example.com", password |-> <<"plain", "password123">>,
       mobileNumber |-> "1234567890", admissionId |-> "JD123",
       employeeId |-> Undefined, isAdmin |-> FALSE],
      [userType |-> "Member", userFullName |-> "Jane Smith",
       email |-> "jane.smith@example.com", password |-> <<"plain", "password456">>,
       mobileNumber |-> "9876543210", admissionId |-> "JS456",
       employeeId |-> Undefined, isAdmin |-> FALSE],
      [userType |-> "Admin", userFullName |-> "Admin User",
       email |-> "admin@example.com", password |-> <<"plain", "adminPassword">>,
       mobileNumber |-> "1122334455", admissionId |-> Undefined,
       employeeId |-> "AD001", isAdmin |-> TRUE]>>

(* bcrypt.hash(password, await bcrypt.genSalt(10)): never the plain text.  *)
hashPassword(password) == <<"bcrypt", 10, password[2]>>

booksData(cmap) ==
    <<[bookName |-> "The Lord of the Rings", author |-> "J.R.R. Tolkien",
       bookCountAvailable |-> 5,
       categories |-> <<Lookup(cmap, "Fiction")>>],
      [bookName |-> "Dune", author |-> "Frank Herbert",
       bookCountAvailable |-> 3,
       categories |-> <<Lookup(cmap, "Science Fiction")>>],
      [bookName |-> "The Girl with the Dragon Tattoo", author |-> "Stieg Larsson",
       bookCountAvailable |-> 2,
       categories |-> <<Lookup(cmap, "Mystery"), Lookup(cmap, "Thriller")>>],
      [bookName |-> "Sapiens: A Brief History of Humankind",
       author |-> "Yuval Noah Harari", bookCountAvailable |-> 4,
       categories |-> <<Lookup(cmap, "Non-Fiction"), Lookup(cmap, "History")>>],
      [bookName |-> "Steve Jobs", author |-> "Walter Isaacson",
       bookCountAvailable |-> 1,
       categories |-> <<Lookup(cmap, "Biography"), Lookup(cmap, "Technology")>>]>>

transactionsData(bmap, umap) ==
    <<[bookId |-> Lookup(bmap, "The Lord of the Rings"),
       borrowerId |-> Lookup(umap, "John Doe"),
       bookName |-> "The Lord of the Rings", borrowerName |-> "John Doe",
       transactionType |-> "Issue", fromDate |-> "2024-01-15",
       toDate |-> "2024-02-15", returnDate |-> Undefined,
       transactionStatus |-> Undefined],
      [bookId |-> Lookup(bmap, "Dune"),
       borrowerId |-> Lookup(umap, "Jane Smith"),
       bookName |-> "Dune", borrowerName |-> "Jane Smith",
       transactionType |-> "Reservation", fromDate |-> "2024-02-20",
       toDate |-> "2024-03-20", returnDate |-> Undefined,
       transactionStatus |-> Undefined],
      [bookId |-> Lookup(bmap, "Sapiens: A Brief History of Humankind"),
       borrowerId |-> Lookup(umap, "John Doe"),
       bookName |-> "Sapiens: A Brief History of Humankind",
       borrowerName |-> "John Doe", transactionType |-> "Issue",
       fromDate |-> "2023-11-10", toDate |-> "2023-12-10",
       returnDate |-> "2023-12-05", transactionStatus |-> "Completed"]>>

(* The documents each insertMany is called with.                           *)
CategoryDocs(run) ==
    [i \in 1..Len(categoriesData) |->
        BookCategory(categoriesData[i], NewId(run, "bookcategories", i))]

UserDoc(run, i) ==
    User([usersData[i] EXCEPT !.password = hashPassword(usersData[i].password)],
         NewId(run, "users", i))

BookDocs(run, cmap) ==
    [i \in 1..Len(booksData(cmap)) |->
        Book(booksData(cmap)[i], NewId(run, "books", i))]

TransactionDocs(run, bmap, umap) ==
    [i \in 1..Len(transactionsData(bmap, umap)) |->
        BookTransaction(transactionsData(bmap, umap)[i],
                        NewId(run, "booktransactions", i))]

Names(docs, field) == [i \in 1..Len(docs) |-> docs[i][field]]

----------------------------------------------------------------------------
(* A slip in the order of the statements: books inserted before the       *)
(* categories they refer to.                                               *)
ProgramBooksFirst ==
    <<[op |-> "connect", target |-> "MONGO_URL"],
      [op |-> "dropCollection", target |-> "books"],
      [op |-> "dropCollection", target |-> "bookcategories"],
      [op |-> "dropCollection", target |-> "booktransactions"],
      [op |-> "dropCollection", target |-> "users"],
      [op |-> "insertMany", target |-> "books"],
      [op |-> "insertMany", target |-> "bookcategories"],
      [op |-> "hashPassword", target |-> "John Doe"],
      [op |-> "hashPassword", target |-> "Jane Smith"],
      [op |-> "hashPassword", target |-> "Admin User"],
      [op |-> "insertMany", target |-> "users"],
      [op |-> "insertMany", target |-> "booktransactions"],
      [op |-> "close", target |-> "connection"]>>

(* The awaited calls of seedDatabase in program order; the last one is the *)
(* finally block.                                                          *)
Program ==
    <<[op |-> "connect", target |-> "MONGO_URL"],
      [op |-> "dropCollection", target |-> "books"],
      [op |-> "dropCollection", target |-> "bookcategories"],
      [op |-> "dropCollection", target |-> "booktransactions"],
      [op |-> "dropCollection", target |-> "users"],
      [op |-> "insertMany", target |-> "bookcategories"],
      [op |-> "hashPassword", target |-> "John Doe"],
      [op |-> "hashPassword", target |-> "Jane Smith"],
      [op |-> "hashPassword", target |-> "Admin User"],
      [op |-> "insertMany", target |-> "users"],
      [op |-> "insertMany", target |-> "books"],
      [op |-> "insertMany", target |-> "booktransactions"],
      [op |-> "close", target |-> "connection"]>>

FinallyPc == Len(Program)
DonePc == Len(Program) + 1

(* A return from the catch block instead of falling into finally.         *)
SkipFinally == DonePc
(* Where control goes when an awaited call of the try block rejects: the   *)
(* catch block logs the error and falls into finally.                      *)
CatchPc == FinallyPc

(* e.code of a rejected dropCollection: 26 is NamespaceNotFound, which     *)
(* only a missing collection gives; 13 (Unauthorized) stands for every     *)
(* other code, which the handler does not tell apart.                      *)
NamespaceNotFound == 26
DropErrorCodes(exists) == IF exists THEN {13} ELSE {13, NamespaceNotFound}

(* A handler that rethrows whatever it is given.                           *)
RethrowsAll(code) == TRUE
(* .catch(e => { if (e.code != 26) throw e; })                             *)
Rethrows(code) == code # NamespaceNotFound

(* An insert that also does the ledger's work: every Active Issue it      *)
(* writes takes a copy off the book's available count.                     *)
AfterInsertLedger(d, c, docs, k) ==
    LET d1 == [d EXCEPT ![c] = [exists |-> d[c].exists \/ k > 0,
                                docs |-> d[c].docs \o SubSeq(docs, 1, k)]]
        issued(b) == Cardinality({i \in 1..k :
                         /\ c = "booktransactions"
                         /\ docs[i].transactionType = "Issue"
                         /\ docs[i].transactionStatus = "Active"
                         /\ docs[i].bookId = b._id})
    IN [d1 EXCEPT !["books"].docs =
           [i \in 1..Len(d1["books"].docs) |->
               [d1["books"].docs[i] EXCEPT !.bookCountAvailable =
                                               @ - issued(d1["books"].docs[i])]]]
(* The collection after insertMany wrote the first k of docs (all of them  *)
(* when it resolved, any prefix when it rejected: inserts are ordered and  *)
(* not transactional).                                                     *)
AfterInsert(d, c, docs, k) ==
    [d EXCEPT ![c] = [exists |-> d[c].exists \/ k > 0,
                      docs |-> d[c].docs \o SubSeq(docs, 1, k)]]

(* What a previous run of the script left behind in a collection.          *)
PreviousDocs(c) ==
    LET cats == CategoryDocs("run0")
        us == [i \in 1..Len(usersData) |-> UserDoc("run0", i)]
        bks == BookDocs("run0", ReduceToMap(cats, Names(cats, "categoryName")))
    IN CASE c = "bookcategories" -> cats
         [] c = "users" -> us
         [] c = "books" -> bks
         [] c = "booktransactions" ->
                TransactionDocs("run0",
                                ReduceToMap(bks, Names(bks, "bookName")),
                                ReduceToMap(us, Names(us, "userFullName")))

Init ==
    /\ pc = 1
    /\ inflight = {}
    /\ conn = "disconnected"
    /\ \E E \in SUBSET Collections :
          db = [c \in Collections |->
                   IF c \in E
                   THEN [exists |-> TRUE, docs |-> PreviousDocs(c)]
                   ELSE [exists |-> FALSE, docs |-> <<>>]]
    /\ caught = FALSE
    /\ users = <<>>
    /\ categoryMap = <<>>
    /\ userMap = <<>>
    /\ bookMap = <<>>
    /\ log = <<>>
    /\ closeCount = 0
    /\ result = "pending"

----------------------------------------------------------------------------
Current == Program[pc]
Awaiting(op) == pc <= Len(Program) /\ inflight = {Current} /\ Current.op = op

Event(ev, code) ==
    [op |-> Current.op, target |-> Current.target, ev |-> ev, code |-> code]

Settled(ev, code) ==
    /\ inflight' = {}
    /\ log' = Append(log, Event(ev, code))

(* The awaited promise resolved: on to the next statement.                 *)
Continue == pc' = pc + 1 /\ UNCHANGED caught

(* It rejected: the rest of the try block is skipped, catch logs the error. *)
Throw == pc' = CatchPc /\ caught' = TRUE

(* The next awaited call is made; nothing else of the function runs until  *)
(* it settles.                                                             *)
Start ==
    /\ pc <= Len(Program)
    /\ inflight = {}
    /\ inflight' = {Current}
    /\ log' = Append(log, Event("start", 0))
    /\ UNCHANGED <<pc, conn, db, caught, users, categoryMap, userMap, bookMap,
                   closeCount, result>>

SettleConnect ==
    /\ Awaiting("connect")
    /\ \/ conn' = "connected" /\ Settled("ok", 0) /\ Continue
       \/ conn' = conn /\ Settled("error", 0) /\ Throw
    /\ UNCHANGED <<db, users, categoryMap, userMap, bookMap, closeCount, result>>

SettleDrop ==
    /\ Awaiting("dropCollection")
    /\ LET c == Current.target IN
       \/ /\ db' = [db EXCEPT ![c] = [exists |-> FALSE, docs |-> <<>>]]
          /\ Settled("ok", 0)
          /\ Continue
       \/ \E code \in DropErrorCodes(db[c].exists) :
             /\ db' = db
             /\ Settled("error", code)
             /\ IF Rethrows(code) THEN Throw ELSE Continue
    /\ UNCHANGED <<conn, users, categoryMap, userMap, bookMap, closeCount, result>>

SettleInsertCategories ==
    /\ Awaiting("insertMany") /\ Current.target = "bookcategories"
    /\ LET docs == CategoryDocs("run1") IN
       \/ /\ db' = AfterInsert(db, "bookcategories", docs, Len(docs))
          /\ categoryMap' = ReduceToMap(docs, Names(docs, "categoryName"))
          /\ Settled("ok", 0)
          /\ Continue
       \/ \E k \in 0..Len(docs) :
             /\ db' = AfterInsert(db, "bookcategories", docs, k)
             /\ categoryMap' = categoryMap
             /\ Settled("error", 0)
             /\ Throw
    /\ UNCHANGED <<conn, users, userMap, bookMap, closeCount, result>>

SettleHash ==
    /\ Awaiting("hashPassword")
    /\ \/ /\ users' = Append(users, UserDoc("run1", Len(users) + 1))
          /\ Settled("ok", 0)
          /\ Continue
       \/ users' = users /\ Settled("error", 0) /\ Throw
    /\ UNCHANGED <<conn, db, categoryMap, userMap, bookMap, closeCount, result>>

SettleInsertUsers ==
    /\ Awaiting("insertMany") /\ Current.target = "users"
    /\ \/ /\ db' = AfterInsert(db, "users", users, Len(users))
          /\ userMap' = ReduceToMap(users, Names(users, "userFullName"))
          /\ Settled("ok", 0)
          /\ Continue
       \/ \E k \in 0..Len(users) :
             /\ db' = AfterInsert(db, "users", users, k)
             /\ userMap' = userMap
             /\ Settled("error", 0)
             /\ Throw
    /\ UNCHANGED <<conn, users, categoryMap, bookMap, closeCount, result>>

SettleInsertBooks ==
    /\ Awaiting("insertMany") /\ Current.target = "books"
    /\ LET docs == BookDocs("run1", categoryMap) IN
       \/ /\ db' = AfterInsert(db, "books", docs, Len(docs))
          /\ bookMap' = ReduceToMap(docs, Names(docs, "bookName"))
          /\ Settled("ok", 0)
          /\ Continue
       \/ \E k \in 0..Len(docs) :
             /\ db' = AfterInsert(db, "books", docs, k)
             /\ bookMap' = bookMap
             /\ Settled("error", 0)
             /\ Throw
    /\ UNCHANGED <<conn, users, categoryMap, userMap, closeCount, result>>

SettleInsertTransactions ==
    /\ Awaiting("insertMany") /\ Current.target = "booktransactions"
    /\ LET docs == TransactionDocs("run1", bookMap, userMap)
           valid == \A i \in 1..Len(docs) : ValidTransaction(docs[i])
       IN
       \/ /\ valid
          /\ db' = AfterInsert(db, "booktransactions", docs, Len(docs))
          /\ Settled("ok", 0)
          /\ Continue
       \/ \E k \in 0..(IF valid THEN Len(docs) ELSE 0) :
             /\ db' = AfterInsert(db, "booktransactions", docs, k)
             /\ Settled("error", 0)
             /\ Throw
    /\ UNCHANGED <<conn, users, categoryMap, userMap, bookMap, closeCount, result>>

(* finally: await mongoose.connection.close(); then the function returns.  *)
(* close() is taken to resolve, also on a connection that never opened.    *)
SettleClose ==
    /\ Awaiting("close")
    /\ conn' = "closed"
    /\ closeCount' = closeCount + 1
    /\ Settled("ok", 0)
    /\ pc' = DonePc
    /\ result' = "resolved"
    /\ UNCHANGED <<db, caught, users, categoryMap, userMap, bookMap>>

Next ==
    \/ Start
    \/ SettleConnect
    \/ SettleDrop
    \/ SettleInsertCategories
    \/ SettleHash
    \/ SettleInsertUsers
    \/ SettleInsertBooks
    \/ SettleInsertTransactions
    \/ SettleClose

Spec == Init /\ [][Next]_vars

(* Every awaited promise settles and the function then runs on.            *)
FairSpec == Spec /\ WF_vars(Next)

TypeOK ==
    /\ pc \in 1..DonePc
    /\ Cardinality(inflight) <= 1
    /\ conn \in {"disconnected", "connected", "closed"}
    /\ result \in {"pending", "resolved"}

----------------------------------------------------------------------------
(* Properties                                                              *)

Ids(docs) == {docs[i]._id : i \in 1..Len(docs)}
Range(seq) == {seq[i] : i \in 1..Len(seq)}
IsPrefix(s, t) == Len(s) <= Len(t) /\ \A i \in 1..Len(s) : s[i] = t[i]

transactions == db["booktransactions"].docs

(* An awaited call of the try block rejected and nothing swallowed it.     *)
Failed(e) ==
    /\ e.ev = "error"
    /\ ~(e.op = "dropCollection" /\ e.code = 26)
Swallowed(e) == e.ev = "error" /\ e.op = "dropCollection" /\ e.code = 26

(* C3: for every BookTransaction in the database, in every state the       *)
(* script reaches (the documents of an earlier run, a partly inserted      *)
(* batch, the seeded state), returnDate is set if and only if              *)
(* transactionStatus is Completed.                                         *)
C3_ReturnDateIffCompleted ==
    \A i \in 1..Len(transactions) :
        (transactions[i].returnDate # Undefined)
            <=> (transactions[i].transactionStatus = "Completed")

(* The seeded state: two transactions Active without a returnDate, one     *)
(* Completed with it.                                                      *)
C3_Seeded ==
    /\ pc = DonePc /\ ~caught
    /\ \E t \in Range(transactions) :
          t._id[2] = "run1" /\ t.transactionStatus = "Completed"
          /\ t.returnDate = "2023-12-05"
    /\ Cardinality({t \in Range(transactions) :
          t._id[2] = "run1" /\ t.transactionStatus = "Active"
          /\ t.returnDate = Undefined}) = 2

(* C7, as stated: the loader performs no ledger or state-machine logic:    *)
(* it never changes the available count of a book it finds in the          *)
(* database and it never sets a transaction's lifecycle status, so every   *)
(* transaction it writes carries the schema's default status and no        *)
(* returnDate.                                                             *)
C7_SetsNoStatus ==
    [][/\ \A b \in Range(db["books"].docs) :
              \A b2 \in Range(db'["books"].docs) :
                  b2._id = b._id => b2.bookCountAvailable = b.bookCountAvailable
       /\ \A t \in Range(db'["booktransactions"].docs) :
              t \notin Range(db["booktransactions"].docs)
                  => /\ t.transactionStatus = DefaultTransactionStatus
                     /\ t.returnDate = Undefined]_vars

(* C7, amended: every step of the loader either leaves a collection as it  *)
(* is, drops it whole, or appends newly created documents to it; no        *)
(* document is changed after it was created (neither a book's available    *)
(* count nor a transaction's status).  The documents it creates include    *)
(* transactions, whose status is set at creation: a complete batch is two  *)
(* Active transactions and one Completed.                                  *)
C7_DropAndCreateOnly ==
    [][\A c \in Collections :
          \/ db'[c] = [exists |-> FALSE, docs |-> <<>>]
          \/ /\ IsPrefix(db[c].docs, db'[c].docs)
             /\ \A i \in (Len(db[c].docs) + 1)..Len(db'[c].docs) :
                    db'[c].docs[i]._id[2] = "run1"
             /\ (c = "booktransactions" /\ Len(db'[c].docs) = Len(db[c].docs) + 3)
                    => [i \in 1..3 |->
                           db'[c].docs[Len(db[c].docs) + i].transactionStatus]
                         = <<"Active", "Active", "Completed">>]_vars

(* The loader has written a transaction whose status it set itself, and    *)
(* the book it is about still has the count it was created with.           *)
C7_CreatedCompleted ==
    /\ \E t \in Range(transactions) :
          /\ t._id[2] = "run1"
          /\ t.transactionStatus = "Completed"
          /\ t.returnDate # Undefined
    /\ \E t \in Range(transactions) :
          /\ t._id[2] = "run1" /\ t.transactionStatus = "Active"
          /\ t.transactionType = "Issue"
          /\ \E b \in Range(db["books"].docs) :
                b._id = t.bookId /\ b.bookCountAvailable = 5

(* The drops and inserts that were issued, in the order of issue.          *)
IsWrite(e) == e.ev = "start" /\ e.op \in {"dropCollection", "insertMany"}
Writes == SelectSeq(log, IsWrite)
Kind(e) == IF e.op = "dropCollection" THEN "dropCollection" ELSE e.target
ExpectedOrder ==
    <<"dropCollection", "dropCollection", "dropCollection", "dropCollection",
      "bookcategories", "users", "books", "booktransactions">>

(* C8: the drops and inserts are issued in the order four dropCollection   *)
(* calls (of four different collections), categories, users, books,        *)
(* transactions; a call is issued only when the call before it has         *)
(* settled; and when the run ends without an error all eight were made,    *)
(* every category id of a seeded book is the id of a category inserted in  *)
(* this run, and every bookId and borrowerId of a seeded transaction is    *)
(* the id of a book and a user inserted in this run.                       *)
C8_OrderAndReferences ==
    /\ IsPrefix([i \in 1..Len(Writes) |-> Kind(Writes[i])], ExpectedOrder)
    /\ \A i, j \in 1..Len(Writes) :
          (i # j /\ Writes[i].op = "dropCollection"
                 /\ Writes[j].op = "dropCollection")
              => Writes[i].target # Writes[j].target
    /\ Cardinality(inflight) <= 1
    /\ \A i \in 2..Len(log) : log[i].ev = "start" => log[i-1].ev # "start"
    /\ (pc = DonePc /\ ~caught) =>
          /\ Len(Writes) = Len(ExpectedOrder)
          /\ \A b \in Range(db["books"].docs) :
                \A c \in Range(b.categories) :
                    c \in Ids(db["bookcategories"].docs) /\ c[2] = "run1"
          /\ \A t \in Range(transactions) :
                /\ t.bookId \in Ids(db["books"].docs)
                /\ t.bookId[2] = "run1"
                /\ t.borrowerId \in Ids(db["users"].docs)
                /\ t.borrowerId[2] = "run1"

(* A run that went through: everything inserted.                           *)
C8_SeededAll ==
    /\ pc = DonePc /\ ~caught
    /\ Len(db["books"].docs) = 5
    /\ Len(transactions) = 3
    /\ Len(db["bookcategories"].docs) = 8
    /\ Len(db["users"].docs) = 3

(* C9: a dropCollection rejected with code 26 does not end the seeding:    *)
(* the next call of the program follows it.  Any other rejected call of    *)
(* the try block is followed by nothing but the close of finally and the   *)
(* error is caught; the documents of every insertMany that resolved are    *)
(* still in their collection, complete; and the function ends resolved.    *)
C9_FailureHandling ==
    /\ \A i \in 1..Len(log) :
          Swallowed(log[i]) =>
              /\ i = Len(log) => (pc = (i \div 2) + 1 /\ ~caught)
              /\ i < Len(log) =>
                    /\ log[i+1].ev = "start"
                    /\ log[i+1].op # "close"
                    /\ log[i+1].op = Program[(i \div 2) + 1].op
                    /\ log[i+1].target = Program[(i \div 2) + 1].target
    /\ \A i \in 1..Len(log) :
          Failed(log[i]) =>
              /\ caught
              /\ \A j \in (i+1)..Len(log) : log[j].op = "close"
    /\ \A i \in 1..Len(log) :
          (log[i].op = "insertMany" /\ log[i].ev = "ok") =>
              /\ db[log[i].target].exists
              /\ Cardinality({d \in Range(db[log[i].target].docs) :
                                 d._id[2] = "run1"})
                   = CASE log[i].target = "bookcategories" -> Len(categoriesData)
                       [] log[i].target = "users" -> Len(usersData)
                       [] log[i].target = "books" -> 5
                       [] log[i].target = "booktransactions" -> 3
    /\ pc = DonePc => result = "resolved"
    /\ result = "resolved" => pc = DonePc

(* A run in which a drop was rejected with code 26, the categories and     *)
(* users went in, the insert of the books failed half way, and the         *)
(* function has returned.                                                  *)
C9_FailedAtBooks ==
    /\ pc = DonePc /\ caught /\ result = "resolved"
    /\ \E i \in 1..Len(log) : Swallowed(log[i])
    /\ \E i \in 1..Len(log) :
          Failed(log[i]) /\ log[i].op = "insertMany" /\ log[i].target = "books"
    /\ Len(db["bookcategories"].docs) = 8
    /\ Len(db["users"].docs) = 3
    /\ Len(db["books"].docs) = 2
    /\ Len(transactions) = 0

(* C10: every run closes the connection, and does so once: close is        *)
(* eventually called, it is never called a second time, and no call is     *)
(* issued after it.                                                        *)
C10_ClosesOnce ==
    /\ <>(closeCount = 1 /\ conn = "closed")
    /\ [](closeCount <= 1)
    /\ [](\A i \in 1..Len(log) :
             (log[i].op = "close" /\ log[i].ev = "ok") => i = Len(log))

(* The run whose connect failed has closed the connection all the same.    *)
C10_ClosedAfterFailedConnect ==
    /\ pc = DonePc
    /\ closeCount = 1
    /\ conn = "closed"
    /\ Len(log) = 4
    /\ log[2].op = "connect" /\ log[2].ev = "error"

====
